---- MODULE Spec2Model ----
\* Model of the blueprint-agent backend (src/backend/server.js): the in-memory
\* session map and the three async handlers /agent/start, /agent/message and
\* /agent/finalize. Each handler is split at its single await on the AI call
\* (or on PDF/email delivery) into a Begin step and an End step, so requests
\* may interleave exactly as they can on the Node.js event loop.
EXTENDS Integers, Naturals, Sequences, FiniteSets, TLC

\* ---------------------------------------------------------------- bounds
MaxReqs == 3
MaxTime == 2

\* ---------------------------------------------------------------- inputs
Ideas == {"", "bakery", "cafe"}
Emails == {"", "a@b.com"}
Messages == {"more", ""}
\* Raw AI output as a sequence of characters; non-ASCII characters are named
\* by their code point ("U+2022" is the bullet).
RawContents == {<<"a">>, <<" ">>, <<"&", "#", "3", "2", ";", "U+2022">>}
\* The AI call yields no content at all (HTTP/network error, missing field).
GatewayOutcomes == {[ok |-> FALSE, raw |-> <<>>]} \cup {[ok |-> TRUE, raw |-> r] : r \in RawContents}
\* JavaScript null, the result of callGroqAI when there is no content
Null == "<null>"
\* Keys inherited from Object.prototype: sessions["toString"] is truthy.
ProtoKeys == {"toString"}

\* ---------------------------------------------------------------- text
\* he.decode for the character references the inputs contain
Entities == [amp |-> <<"&", "a", "m", "p", ";">>, lt |-> <<"&", "l", "t", ";">>,
             sp |-> <<"&", "#", "3", "2", ";">>, rsquo |-> <<"&", "#", "8", "2", "1", "7", ";">>]
EntityChar == [amp |-> "&", lt |-> "<", sp |-> " ", rsquo |-> "U+2019"]
RECURSIVE Decode(_)
Decode(cs) ==
  IF cs = <<>> THEN <<>>
  ELSE LET hits == {e \in DOMAIN Entities :
                      Len(cs) >= Len(Entities[e]) /\ SubSeq(cs, 1, Len(Entities[e])) = Entities[e]}
       IN IF hits # {}
            THEN LET e == CHOOSE x \in hits : TRUE
                 IN <<EntityChar[e]>> \o Decode(SubSeq(cs, Len(Entities[e]) + 1, Len(cs)))
            ELSE <<Head(cs)>> \o Decode(Tail(cs))
\* .replace(/[’‘]/g, "'").replace(/[“”]/g, '"').replace(/[•–—]/g, "-")
ReplaceChar(c) ==
  CASE c \in {"U+2019", "U+2018"} -> "'"
    [] c \in {"U+201C", "U+201D"} -> "\""
    [] c \in {"U+2022", "U+2013", "U+2014"} -> "-"
    [] OTHER -> c
ReplaceChars(cs) == [i \in 1..Len(cs) |-> ReplaceChar(cs[i])]
IsSpace(c) == c \in {" ", "\t", "\n"}
RECURSIVE TrimLeft(_)
TrimLeft(s) == IF s # <<>> /\ IsSpace(Head(s)) THEN TrimLeft(Tail(s)) ELSE s
RECURSIVE TrimRight(_)
TrimRight(s) == IF s # <<>> /\ IsSpace(s[Len(s)]) THEN TrimRight(SubSeq(s, 1, Len(s) - 1)) ELSE s
\* cleanText on a character sequence: decode, then replace, then trim
CleanChars_ReplaceFirst(cs) == TrimRight(TrimLeft(Decode(ReplaceChars(cs))))
CleanChars(cs) == TrimRight(TrimLeft(ReplaceChars(Decode(cs))))
RECURSIVE Concat(_)
Concat(s) == IF s = <<>> THEN "" ELSE Head(s) \o Concat(Tail(s))
\* cleanText as the server stores it, a string
cleanText(raw) == Concat(CleanChars(raw))
\* callGroqAI: content ? cleanText(content) : null
callGroqAI(out) == IF out.ok THEN cleanText(out.raw) ELSE Null
\* JS truthiness of the AI result (`if (!blueprint)` / `if (!reply)`)
Usable_NoEmptyCheck(b) == b # Null
Usable(b) == b # Null /\ b # ""

SystemMsg == [role |-> "system",
              content |-> "You are a professional web design consultant generating detailed blueprints."]
IdeaPrompt(idea) == "Create a detailed website blueprint for this idea: \"" \o idea \o "\"."
StartMessages_RawIdea(idea) == <<SystemMsg, [role |-> "user", content |-> idea]>>
StartMessages(idea) == <<SystemMsg, [role |-> "user", content |-> IdeaPrompt(idea)]>>
StartHistory_NoReply(msgs, bp) == msgs
StartHistory(msgs, bp) == msgs \o <<[role |-> "assistant", content |-> bp]>>
\* ---------------------------------------------------------------- PDF body
\* process.env.DISCOUNT_PERCENT || 25
DiscountPercent == 25
\* the bullet glyph "•" that drawMarkdown prefixes to list items
Glyph == "U+2022"
Char(s, i) == SubSeq(s, i, i)
IsWs(c) == c \in {" ", "\t", "\n"}
StartsWith(s, t) == Len(s) >= Len(t) /\ SubSeq(s, 1, Len(t)) = t
EndsWith(s, t) == Len(s) >= Len(t) /\ SubSeq(s, Len(s) - Len(t) + 1, Len(s)) = t
RECURSIVE TrimStrLeft(_)
TrimStrLeft(s) == IF Len(s) > 0 /\ IsWs(Char(s, 1)) THEN TrimStrLeft(SubSeq(s, 2, Len(s))) ELSE s
RECURSIVE TrimStrRight(_)
TrimStrRight(s) == IF Len(s) > 0 /\ IsWs(Char(s, Len(s))) THEN TrimStrRight(SubSeq(s, 1, Len(s) - 1)) ELSE s
\* String.prototype.trim
TrimStr(s) == TrimStrRight(TrimStrLeft(s))
\* markdown.split(/\n+/): split at every maximal run of newlines
RECURSIVE SplitNl(_, _)
SplitNl(s, cur) ==
  IF Len(s) = 0 THEN <<cur>>
  ELSE IF Char(s, 1) = "\n"
       THEN IF Len(s) > 1 /\ Char(s, 2) = "\n" THEN SplitNl(SubSeq(s, 2, Len(s)), cur)
            ELSE <<cur>> \o SplitNl(SubSeq(s, 2, Len(s)), "")
       ELSE SplitNl(SubSeq(s, 2, Len(s)), cur \o Char(s, 1))
\* p.replace(/\*\*/g, ""): delete every non-overlapping "**", left to right
RECURSIVE RemoveStars(_)
RemoveStars(s) ==
  IF Len(s) < 2 THEN s
  ELSE IF SubSeq(s, 1, 2) = "**" THEN RemoveStars(SubSeq(s, 3, Len(s)))
       ELSE Char(s, 1) \o RemoveStars(SubSeq(s, 2, Len(s)))
RECURSIVE DropHashes(_)
DropHashes(s) == IF Len(s) > 0 /\ Char(s, 1) = "#" THEN DropHashes(SubSeq(s, 2, Len(s))) ELSE s
\* p.replace(/^#+\s*/, "") on a p that starts with "#"
StripHeading(s) == TrimStrLeft(DropHashes(s))
\* a doc.text() call: its font and its text; drawMarkdown passes no indent option
Block(font, text) == [font |-> font, text |-> text, indent |-> 0]
\* one paragraph of drawMarkdown (p already trimmed and non-empty)
DrawPara_SliceOne(p) ==
  IF StartsWith(p, "**") /\ EndsWith(p, "**") THEN Block("Helvetica-Bold", RemoveStars(p))
  ELSE IF StartsWith(p, "- ") \/ StartsWith(p, "* ") THEN Block("Helvetica", Glyph \o " " \o SubSeq(p, 2, Len(p)))
  ELSE IF StartsWith(p, "#") THEN Block("Helvetica-Bold", StripHeading(p))
  ELSE Block("Helvetica", p)
DrawPara(p) ==
  IF StartsWith(p, "**") /\ EndsWith(p, "**") THEN Block("Helvetica-Bold", RemoveStars(p))
  ELSE IF StartsWith(p, "- ") \/ StartsWith(p, "* ") THEN Block("Helvetica", Glyph \o " " \o SubSeq(p, 3, Len(p)))
  ELSE IF StartsWith(p, "#") THEN Block("Helvetica-Bold", StripHeading(p))
  ELSE Block("Helvetica", p)
RECURSIVE DrawParas(_)
DrawParas(ps) ==
  IF ps = <<>> THEN <<>>
  ELSE LET p == TrimStr(Head(ps))
       IN (IF p = "" THEN <<>> ELSE <<DrawPara(p)>>) \o DrawParas(Tail(ps))
drawMarkdown(markdown) == DrawParas(SplitNl(markdown, ""))
TitleBlock == Block("Helvetica", "Website Blueprint")
DiscountBlock == Block("Helvetica", "Discount: " \o ToString(DiscountPercent) \o "% off your next project")
\* the call-to-action sets no font: pdfkit keeps the last font drawMarkdown set
\* (Helvetica, the document default, when the body drew nothing)
CtaFont(body) == IF body = <<>> THEN "Helvetica" ELSE body[Len(body)].font
CtaBlock(font) == Block(font, "Call to Action: Contact me to get started!")
\* the text blocks createPDFBuffer writes, in order
createPDFBuffer(text) ==
  LET body == drawMarkdown(text)
  IN <<TitleBlock, DiscountBlock>> \o body \o <<CtaBlock(CtaFont(body))>>

IdOf(t) == ToString(t)
AllIds == {IdOf(t) : t \in 1..(MaxTime + 1)}
ReqIds == AllIds \cup ProtoKeys \cup {""}

VARIABLES clock, sessions, objs, pend, reqs, last, usedIds, gwCalls, finalized,
          events,  \* finalize's render / send / reply events, in order
          fin, fout \* input and result of a pure function under test
vars == <<clock, sessions, objs, pend, reqs, last, usedIds, gwCalls, finalized, events, fin, fout>>

NoResp == [rid |-> 0, op |-> "none", code |-> 0, err |-> "", id |-> "", valid |-> FALSE,
           gen |-> "", fresh |-> FALSE, obj |-> 0, pos |-> 0, msg |-> "",
           preLen |-> 0, postLen |-> 0, preBp |-> "", postBp |-> "", solo |-> FALSE,
           idea |-> "", email |-> "", unknown |-> FALSE]

\* `if (!idea || !email)`
MissingFields_Both(idea, email) == idea = "" /\ email = ""
MissingFields(idea, email) == idea = "" \/ email = ""
\* ghost: the id was never handed out by a successful Start, or its Finalize completed
Unknown(id) == id \notin usedIds \/ id \in finalized
\* sessions[id] as JavaScript evaluates it on a plain object
Lookup(id) ==
  IF id \in ProtoKeys THEN "proto"
  ELSE IF id \in AllIds /\ sessions[id] # 0 THEN "own" ELSE "none"

ServerInit ==
  /\ clock = 1
  /\ sessions = [i \in AllIds |-> 0]
  /\ objs = <<>>
  /\ pend = {}
  /\ reqs = 0
  /\ last = NoResp
  /\ usedIds = {}
  /\ gwCalls = 0
  /\ finalized = {}
  /\ events = <<>>

Init == ServerInit /\ fin = "" /\ fout = ""

\* Date.now() advances
Tick ==
  /\ clock < MaxTime
  /\ clock' = clock + 1
  /\ UNCHANGED <<sessions, objs, pend, reqs, last, usedIds, gwCalls, finalized>>
  /\ UNCHANGED <<events, fin, fout>>

\* POST /agent/start up to the await on callGroqAI
StartBeginWith(ideas, emails) ==
  /\ reqs < MaxReqs
  /\ \E idea \in ideas, email \in emails :
       /\ reqs' = reqs + 1
       /\ IF MissingFields(idea, email)
            THEN /\ last' = [NoResp EXCEPT !.rid = reqs + 1, !.op = "start", !.code = 400,
                                         !.err = "Idea and email required",
                                         !.idea = idea, !.email = email]
                 /\ UNCHANGED <<pend, gwCalls>>
            ELSE /\ pend' = pend \cup {[rid |-> reqs + 1, op |-> "start", id |-> IdOf(clock),
                                        idea |-> idea, email |-> email, hung |-> FALSE,
                                        msgs |-> StartMessages(idea)]}
                 /\ gwCalls' = gwCalls + 1
                 /\ UNCHANGED last
  /\ UNCHANGED <<clock, sessions, objs, usedIds, finalized>>
  /\ UNCHANGED <<events, fin, fout>>

\* POST /agent/start after callGroqAI resolves
StartEndWith(outs) ==
  \E p \in pend, out \in outs :
    /\ p.op = "start" /\ ~p.hung
    /\ LET bp == callGroqAI(out)
           base == [NoResp EXCEPT !.rid = p.rid, !.op = "start", !.id = p.id, !.valid = TRUE,
                                  !.gen = bp, !.idea = p.idea, !.email = p.email]
       IN IF ~Usable(bp)
            THEN /\ last' = [base EXCEPT !.code = 500, !.err = "AI generation failed"]
                 /\ UNCHANGED <<sessions, objs, usedIds>>
            ELSE /\ objs' = Append(objs, [id |-> p.id, idea |-> p.idea, email |-> p.email,
                                          blueprint |-> bp, history |-> StartHistory(p.msgs, bp),
                                          nOk |-> 0, nFail |-> 0])
                 /\ sessions' = [sessions EXCEPT ![p.id] = Len(objs) + 1]
                 /\ usedIds' = usedIds \cup {p.id}
                 /\ last' = [base EXCEPT !.code = 200, !.fresh = (p.id \notin usedIds),
                                         !.obj = Len(objs) + 1, !.postBp = bp]
    /\ pend' = pend \ {p}
    /\ UNCHANGED <<clock, reqs, gwCalls, finalized>>
    /\ UNCHANGED <<events, fin, fout>>

StartBegin == StartBeginWith(Ideas, Emails)

\* the fetch in callGroqAI is made without a timeout or AbortSignal: an upstream
\* that accepts the request and never answers leaves the await pending forever
GatewayStall ==
  \E p \in pend :
    /\ p.op \in {"start", "continue"} /\ ~p.hung
    /\ pend' = (pend \ {p}) \cup {[p EXCEPT !.hung = TRUE]}
    /\ UNCHANGED <<clock, sessions, objs, reqs, last, usedIds, gwCalls, finalized, events, fin, fout>>
StartEnd == StartEndWith(GatewayOutcomes)

\* session.history.push({ role: "user", content: message }) followed by the
\* JSON.stringify of session.history inside callGroqAI (synchronous, before its await)
UserMsg(m) == [role |-> "user", content |-> m]
ContinuePush(h, m) == Append(h, UserMsg(m))
\* the messages callGroqAI sends: the array it is handed, serialised whole
GatewayPayload_LastOnly(h) == <<h[Len(h)]>>
GatewayPayload(h) == h
\* session.history.push({ role: "assistant", content: reply }); session.blueprint = reply
ContinueUpdate_NoPush(o, reply) == [o EXCEPT !.blueprint = reply, !.nOk = @ + 1]
ContinueUpdate(o, reply) ==
  [o EXCEPT !.history = Append(@, [role |-> "assistant", content |-> reply]),
            !.blueprint = reply, !.nOk = @ + 1]
\* failure path: nothing is rolled back
OnFailHistory_Rollback(h) == SubSeq(h, 1, Len(h) - 1)
OnFailHistory(h) == h
\* another Continue on the same object interleaves with the pending ones on it
Unsolo(ps, o) == {IF q.op = "continue" /\ q.obj = o THEN [q EXCEPT !.solo = FALSE] ELSE q : q \in ps}

\* POST /agent/message up to the await on callGroqAI
ContinueBegin ==
  /\ reqs < MaxReqs
  /\ \E id \in ReqIds, m \in Messages :
       /\ reqs' = reqs + 1
       /\ LET base == [NoResp EXCEPT !.rid = reqs + 1, !.op = "continue", !.id = id, !.msg = m]
          IN CASE id = "" \/ Lookup(id) = "none" ->
                    /\ last' = [base EXCEPT !.code = 400, !.err = "Invalid session", !.unknown = Unknown(id)]
                    /\ UNCHANGED <<objs, pend, gwCalls>>
               [] Lookup(id) = "proto" ->
                    \* session.history is undefined: push throws a TypeError, caught
                    /\ last' = [base EXCEPT !.code = 500, !.err = "Server error", !.unknown = Unknown(id)]
                    /\ UNCHANGED <<objs, pend, gwCalls>>
               [] OTHER ->
                    LET o == sessions[id]
                        h == objs[o].history
                    IN /\ objs' = [objs EXCEPT ![o].history = ContinuePush(h, m)]
                       /\ pend' = Unsolo(pend, o) \cup
                                  {[rid |-> reqs + 1, op |-> "continue", id |-> id, obj |-> o,
                                    msg |-> m, sent |-> GatewayPayload(ContinuePush(h, m)), pos |-> Len(h) + 1,
                                    hung |-> FALSE,
                                    unknown |-> Unknown(id),
                                    preLen |-> Len(h), preBp |-> objs[o].blueprint,
                                    solo |-> ~\E q \in pend : q.op = "continue" /\ q.obj = o]}
                       /\ gwCalls' = gwCalls + 1
                       /\ UNCHANGED last
  /\ UNCHANGED <<clock, sessions, usedIds, finalized>>
  /\ UNCHANGED <<events, fin, fout>>

\* POST /agent/message after callGroqAI resolves
ContinueEndWith(outs) ==
  \E p \in pend, out \in outs :
    /\ p.op = "continue" /\ ~p.hung
    /\ LET reply == callGroqAI(out)
           o == p.obj
           o2 == IF Usable(reply) THEN ContinueUpdate(objs[o], reply)
                 ELSE [objs[o] EXCEPT !.history = OnFailHistory(@), !.nFail = @ + 1]
       IN /\ objs' = [objs EXCEPT ![o] = o2]
          /\ last' = [NoResp EXCEPT !.rid = p.rid, !.op = "continue", !.id = p.id, !.valid = TRUE,
                                    !.gen = reply, !.obj = o, !.pos = p.pos, !.msg = p.msg,
                                    !.preLen = p.preLen, !.preBp = p.preBp,
                                    !.postLen = Len(o2.history), !.postBp = o2.blueprint,
                                    !.solo = p.solo, !.unknown = p.unknown,
                                    !.code = IF Usable(reply) THEN 200 ELSE 500,
                                    !.err = IF Usable(reply) THEN "" ELSE "AI generation failed"]
          /\ pend' = Unsolo(pend \ {p}, o)
    /\ UNCHANGED <<clock, sessions, reqs, usedIds, gwCalls, finalized>>
    /\ UNCHANGED <<events, fin, fout>>

ContinueEnd == ContinueEndWith(GatewayOutcomes)

\* `await createPDFBuffer(...)` then `await sendEmail(...)` before res.json
SendAwaited_No == FALSE
SendAwaited == TRUE
\* status of the reply once sendEmail settled
FinalizeCode_Always(ok) == 200
FinalizeCode(ok) == IF ok THEN 200 ELSE 500
Ev(rid, ev, ok, to, bp, pdf) == [rid |-> rid, ev |-> ev, ok |-> ok, to |-> to, bp |-> bp, pdf |-> pdf]
FinResp(p, code) ==
  [NoResp EXCEPT !.rid = p.rid, !.op = "finalize", !.id = p.id, !.valid = TRUE,
                 !.obj = p.obj, !.unknown = p.unknown, !.code = code,
                 !.err = IF code = 200 THEN "" ELSE "Server error"]

\* POST /agent/finalize: lookup, then createPDFBuffer(session.blueprint) starts;
\* its executor reads the blueprint synchronously
FinalizeBegin ==
  /\ reqs < MaxReqs
  /\ \E id \in ReqIds :
       /\ reqs' = reqs + 1
       /\ LET base == [NoResp EXCEPT !.rid = reqs + 1, !.op = "finalize", !.id = id]
          IN CASE id = "" \/ Lookup(id) = "none" ->
                    /\ last' = [base EXCEPT !.code = 400, !.err = "Invalid session", !.unknown = Unknown(id)]
                    /\ UNCHANGED pend
               [] Lookup(id) = "proto" ->
                    \* session.blueprint is undefined: markdown.split throws in the
                    \* Promise executor, the await rejects, caught
                    /\ last' = [base EXCEPT !.code = 500, !.err = "Server error", !.unknown = Unknown(id)]
                    /\ UNCHANGED pend
               [] OTHER ->
                    /\ pend' = pend \cup {[rid |-> reqs + 1, op |-> "finalize", id |-> id,
                                            obj |-> sessions[id], unknown |-> Unknown(id),
                                            stage |-> "render", pdf |-> <<>>,
                                            blueprint |-> objs[sessions[id]].blueprint]}
                    /\ UNCHANGED last
  /\ UNCHANGED <<clock, sessions, objs, usedIds, gwCalls, finalized, events, fin, fout>>

\* the PDF stream ends (resolve) or errors (reject); on success sendEmail is
\* called with session.email and the buffer
FinalizeRendered ==
  \E p \in pend, ok \in BOOLEAN :
    /\ p.op = "finalize" /\ p.stage = "render"
    /\ LET to == objs[p.obj].email
           pdf == createPDFBuffer(p.blueprint)
       IN IF ~ok
            THEN /\ events' = events \o <<Ev(p.rid, "render", FALSE, "", p.blueprint, <<>>),
                                          Ev(p.rid, "reply", FALSE, "", p.blueprint, <<>>)>>
                 /\ last' = FinResp(p, 500)
                 /\ pend' = pend \ {p}
            ELSE /\ events' = events \o <<Ev(p.rid, "render", TRUE, "", p.blueprint, pdf),
                                          Ev(p.rid, "send", TRUE, to, p.blueprint, pdf)>>
                 /\ IF SendAwaited
                      THEN /\ pend' = (pend \ {p}) \cup {[p EXCEPT !.stage = "send", !.pdf = pdf]}
                           /\ UNCHANGED last
                      ELSE /\ pend' = (pend \ {p}) \cup {[p EXCEPT !.stage = "background", !.pdf = pdf]}
                           /\ last' = FinResp(p, 200)
    /\ UNCHANGED <<clock, sessions, objs, reqs, usedIds, gwCalls, finalized, fin, fout>>

\* sendEmail settles; the reply follows. The session is left in the map.
FinalizeSent ==
  \E p \in pend, ok \in BOOLEAN :
    /\ p.op = "finalize" /\ p.stage \in {"send", "background"}
    /\ IF p.stage = "send"
         THEN /\ events' = events \o <<Ev(p.rid, "sent", ok, objs[p.obj].email, p.blueprint, p.pdf),
                                       Ev(p.rid, "reply", FinalizeCode(ok) = 200, "", p.blueprint, <<>>)>>
              /\ last' = FinResp(p, FinalizeCode(ok))
              /\ finalized' = IF FinalizeCode(ok) = 200 THEN finalized \cup {p.id} ELSE finalized
         ELSE /\ events' = Append(events, Ev(p.rid, "sent", ok, objs[p.obj].email, p.blueprint, p.pdf))
              /\ UNCHANGED <<last, finalized>>
    /\ pend' = pend \ {p}
    /\ UNCHANGED <<clock, sessions, objs, reqs, usedIds, gwCalls, fin, fout>>

Next == Tick \/ StartBegin \/ StartEnd \/ GatewayStall \/ ContinueBegin \/ ContinueEnd
        \/ FinalizeBegin \/ FinalizeRendered \/ FinalizeSent

Spec == Init /\ [][Next]_vars
\* the event loop runs each handler's continuation once its awaited promise settles
LiveSpec == Spec /\ WF_vars(StartEnd) /\ WF_vars(ContinueEnd)
                 /\ WF_vars(FinalizeRendered) /\ WF_vars(FinalizeSent)


\* ---------------------------------------------------------------- cleanText alone
\* inputs: up to MaxChunks pieces of entity text, curly quotes, bullets and dashes
MaxChunks == 3
CleanChunks == {<<"&", "a", "m", "p", ";">>, <<"&", "l", "t", ";">>, <<"l", "t", ";">>,
                <<"&", "#", "3", "2", ";">>, <<"&", "#", "8", "2", "1", "7", ";">>,
                <<"a">>, <<" ">>, <<"U+2019">>, <<"U+2018">>, <<"U+201C">>, <<"U+201D">>,
                <<"U+2022">>, <<"U+2013">>, <<"U+2014">>}
RECURSIVE Flatten(_)
Flatten(ps) == IF ps = <<>> THEN <<>> ELSE Head(ps) \o Flatten(Tail(ps))
CleanInputs == {Flatten(ps) : ps \in UNION {[1..n -> CleanChunks] : n \in 0..MaxChunks}}
\* fout holds x, cleanText(x), cleanText(cleanText(x)), ...
CleanInit == ServerInit /\ fin \in CleanInputs /\ fout = <<fin>>
cleanTextApply ==
  /\ Len(fout) < 3
  /\ fout' = Append(fout, CleanChars(fout[Len(fout)]))
  /\ UNCHANGED <<clock, sessions, objs, pend, reqs, last, usedIds, gwCalls, finalized, events, fin>>
CleanSpec == CleanInit /\ [][cleanTextApply]_vars


\* ---------------------------------------------------------------- renderer alone
\* inputs: up to MaxLines lines joined by "\n" ("" lines give blank-line runs)
MaxLines == 3
RenderLines == {"# Title", "- item one", "**Plan**", "1. Step", "", "  * x  ", "## Sub", "Plain line."}
RECURSIVE JoinNl(_)
JoinNl(ls) == IF Len(ls) <= 1 THEN (IF ls = <<>> THEN "" ELSE Head(ls)) ELSE Head(ls) \o "\n" \o JoinNl(Tail(ls))
ExampleBody == "# Title\n- item one\n- item two\nPlain line."
RenderInputs == {ExampleBody} \cup {JoinNl(ls) : ls \in UNION {[1..n -> RenderLines] : n \in 1..MaxLines}}
RenderInit == ServerInit /\ fin \in RenderInputs /\ fout = <<>>
createPDFBufferApply ==
  /\ fout = <<>>
  /\ fout' = createPDFBuffer(fin)
  /\ UNCHANGED <<clock, sessions, objs, pend, reqs, last, usedIds, gwCalls, finalized, events, fin>>
RenderSpec == RenderInit /\ [][createPDFBufferApply]_vars


\* ---------------------------------------------------------------- stubbed AI
StrChars(t) == [i \in 1..Len(t) |-> SubSeq(t, i, i)]
StubReply == "**Plan**\n- Hero section\n- Menu page"
StubOutcomes == {[ok |-> TRUE, raw |-> StrChars(StubReply)]}
E2ENext == Tick \/ StartBeginWith({"bakery site"}, {"a@b.com"}) \/ StartEndWith(StubOutcomes)
           \/ ContinueBegin \/ ContinueEndWith(StubOutcomes) \/ FinalizeBegin
           \/ FinalizeRendered \/ FinalizeSent
E2ESpec == Init /\ [][E2ENext]_vars

\* ================================================================ properties
NewResp == last' # last
Stored(o) == o \in 1..Len(objs) /\ sessions[objs[o].id] = o
InFlight(o) == \E q \in pend : q.op = "continue" /\ q.obj = o
RECURSIVE LastAssistantFrom(_, _)
LastAssistantFrom(h, i) ==
  IF i = 0 THEN Null
  ELSE IF h[i].role = "assistant" THEN h[i].content ELSE LastAssistantFrom(h, i - 1)
LastAssistant(h) == LastAssistantFrom(h, Len(h))

\* C1: a Start with non-empty idea and email answers either 200 with a fresh
\* sessionId, a non-empty blueprint and the session stored under that id, or
\* 500 "AI generation failed".
C1_StartOutcome ==
  (last.op = "start" /\ last.idea # "" /\ last.email # "") =>
    \/ /\ last.code = 200 /\ last.fresh /\ last.postBp # ""
       /\ sessions[last.id] = last.obj
    \/ last.code = 500 /\ last.err = "AI generation failed"

\* C2: when the AI result is null or empty after cleaning, Start answers 500
\* "AI generation failed" and the session map is left unchanged.
C2_NoSessionOnEmpty ==
  [][(NewResp /\ last'.op = "start" /\ last'.valid /\ last'.gen \in {Null, ""})
       => /\ last'.code = 500 /\ last'.err = "AI generation failed"
          /\ UNCHANGED <<sessions, objs, usedIds>>]_vars
C2_Witness == last.op = "start" /\ last.valid /\ last.gen = ""

\* C3: a Start with an empty or missing idea or email answers 400 without
\* calling the AI and without touching the session map.
C3_Validation ==
  [][(NewResp /\ last'.op = "start" /\ (last'.idea = "" \/ last'.email = ""))
       => /\ last'.code = 400 /\ last'.err = "Idea and email required"
          /\ UNCHANGED <<sessions, objs, gwCalls, pend>>]_vars
C3_Witness == last.op = "start" /\ last.code = 400 /\ last.idea = "" /\ last.email # ""

\* C4: every successful Start keeps its own session: no session object created
\* by a Start is ever displaced from the map by another Start.
C4_NoOverwrite == \A o \in 1..Len(objs) : sessions[objs[o].id] = o

\* C5 (as stated): with no Continue in flight, a stored session after N
\* successful Continue calls has 2 + 2N history entries and its blueprint is
\* the content of the last entry.
C5_HistoryLen2 ==
  \A o \in 1..Len(objs) : (Stored(o) /\ ~InFlight(o)) =>
    /\ Len(objs[o].history) = 2 + 2 * objs[o].nOk
    /\ objs[o].blueprint = objs[o].history[Len(objs[o].history)].content
\* C5 (amended): with no Continue in flight, a stored session after N
\* successful and F failed Continue calls has 3 + 2N + F history entries, and
\* when F = 0 its blueprint is the content of the last entry.
C5_HistoryLen3 ==
  \A o \in 1..Len(objs) : (Stored(o) /\ ~InFlight(o)) =>
    /\ Len(objs[o].history) = 3 + 2 * objs[o].nOk + objs[o].nFail
    /\ objs[o].nFail = 0 =>
         objs[o].blueprint = objs[o].history[Len(objs[o].history)].content
C5_Witness == \E o \in 1..Len(objs) : Stored(o) /\ ~InFlight(o) /\ objs[o].nOk = 1 /\ objs[o].nFail = 1

\* C6: every stored session's blueprint is the content of the most recent
\* assistant entry of its history, also after failed and interleaved Continues.
C6_BlueprintIsLastAssistant ==
  \A o \in 1..Len(objs) : Stored(o) => objs[o].blueprint = LastAssistant(objs[o].history)
C6_Witness ==
  /\ last.op = "continue" /\ last.code = 200 /\ ~last.solo
  /\ \E o \in 1..Len(objs) : Stored(o) /\ objs[o].nFail + objs[o].nOk = 2

\* C7: history[1] of every stored session is the fixed system instruction and
\* history[2] the user prompt embedding that session's idea.
C7_HistoryHead ==
  \A o \in 1..Len(objs) : Stored(o) =>
    /\ Len(objs[o].history) >= 2
    /\ objs[o].history[1] =
         [role |-> "system",
          content |-> "You are a professional web design consultant generating detailed blueprints."]
    /\ objs[o].history[2] =
         [role |-> "user",
          content |-> "Create a detailed website blueprint for this idea: \"" \o objs[o].idea \o "\"."]
C7_Witness == \E o \in 1..Len(objs) : Stored(o) /\ objs[o].nOk + objs[o].nFail >= 1 /\ objs[o].idea = "cafe"

\* C8: Continue or Finalize on an id that was never created, or whose Finalize
\* completed, answers 400 "Invalid session".
C8_NotFound ==
  (last.op \in {"continue", "finalize"} /\ last.unknown) =>
    last.code = 400 /\ last.err = "Invalid session"

\* C9: while a Continue awaits the AI, the messages it sent are the session's
\* whole history up to and including its own user message, in order.
C9_FullHistorySent ==
  \A p \in pend : p.op = "continue" =>
    /\ Len(p.sent) = p.preLen + 1
    /\ p.preLen >= 3
    /\ p.sent = SubSeq(objs[p.obj].history, 1, p.preLen + 1)
    /\ p.sent[p.preLen + 1] = [role |-> "user", content |-> p.msg]
C9_Witness == \E p \in pend : p.op = "continue" /\ p.preLen >= 4

\* C10: when the AI fails during Continue the answer is 500 "AI generation
\* failed", the call's user message stays in the history, and with no other
\* Continue on the session interleaved the history grew by exactly one entry
\* and the blueprint is unchanged.
C10_FailKeepsUserMsg ==
  (last.op = "continue" /\ last.valid /\ last.gen \in {Null, ""}) =>
    /\ last.code = 500 /\ last.err = "AI generation failed"
    /\ last.solo => (last.postLen = last.preLen + 1 /\ last.postBp = last.preBp)
    /\ last.pos <= Len(objs[last.obj].history)
    /\ objs[last.obj].history[last.pos] = [role |-> "user", content |-> last.msg]
C10_Witness == last.op = "continue" /\ last.code = 500 /\ last.valid /\ last.solo
\* C11: Continue calls on one session are serialized: no two Continues on the
\* same session await the AI at the same time, so neither sends the other's
\* unanswered user message.
C11_Serialized ==
  \A p, q \in pend :
    (p.op = "continue" /\ q.op = "continue" /\ p.obj = q.obj) => p = q
EvOf(r, e) == {i \in 1..Len(events) : events[i].rid = r /\ events[i].ev = e}

\* C12: Finalize answers 200 only after the PDF rendered from the session's
\* blueprint was delivered to the session's email; a rendering or sending
\* failure makes it answer 500 and never 200.
C12_FinalizeDelivers ==
  /\ (last.op = "finalize" /\ last.code = 200) =>
       \E i \in EvOf(last.rid, "sent") :
         /\ events[i].ok
         /\ events[i].to = objs[last.obj].email
         /\ events[i].pdf = createPDFBuffer(events[i].bp)
  /\ (last.op = "finalize" /\ last.valid /\
      \E i \in EvOf(last.rid, "render") \cup EvOf(last.rid, "sent") : ~events[i].ok) =>
       last.code = 500 /\ last.err = "Server error"
C12_Witness == last.op = "finalize" /\ last.code = 200 /\ last.valid

\* C13: in a Finalize the render completes, then the send starts, then the send
\* settles, then the reply is sent, and nothing of that Finalize happens after
\* its reply.
C13_Order ==
  /\ \A k \in 1..Len(events) : events[k].ev = "reply" =>
       /\ \/ \E i \in EvOf(events[k].rid, "render") : i < k /\ ~events[i].ok
          \/ \E i \in EvOf(events[k].rid, "render"), j \in EvOf(events[k].rid, "send"),
                l \in EvOf(events[k].rid, "sent") : events[i].ok /\ i < j /\ j < l /\ l < k
       /\ \A m \in (k + 1)..Len(events) : events[m].rid # events[k].rid
  /\ (last.op = "finalize" /\ last.valid) =>
       /\ ~\E p \in pend : p.rid = last.rid
       /\ EvOf(last.rid, "reply") # {}
C13_Witness == last.op = "finalize" /\ last.valid /\ EvOf(last.rid, "sent") # {}
Chars(cs) == {cs[i] : i \in DOMAIN cs}

\* C15 (as stated): cleanText is idempotent on every input of the alphabet.
C15_Idempotent ==
  Len(fout) = 3 => fout[3] = fout[2]
\* C15 (amended): cleanText is idempotent on every input whose cleaned text
\* contains no "&", that is, no character reference survives the single decode.
C15_IdempotentNoAmp ==
  (Len(fout) = 3 /\ "&" \notin Chars(fout[2])) => fout[3] = fout[2]
C15_Witness ==
  /\ Len(fout) = 3 /\ "&" \notin Chars(fout[2]) /\ fout[2] # fout[1]
  /\ "&" \in Chars(fout[1]) /\ "'" \in Chars(fout[2])
\* C16: rendering "# Title\n- item one\n- item two\nPlain line." writes the
\* title, the discount line, heading "Title", bullets "item one" and
\* "item two", paragraph "Plain line." and the call-to-action, in that order.
C16_ExampleRender ==
  (fin = "# Title\n- item one\n- item two\nPlain line." /\ fout # <<>>) =>
    fout = << [font |-> "Helvetica", text |-> "Website Blueprint", indent |-> 0],
              [font |-> "Helvetica", text |-> "Discount: 25% off your next project", indent |-> 0],
              [font |-> "Helvetica-Bold", text |-> "Title", indent |-> 0],
              [font |-> "Helvetica", text |-> "U+2022 item one", indent |-> 0],
              [font |-> "Helvetica", text |-> "U+2022 item two", indent |-> 0],
              [font |-> "Helvetica", text |-> "Plain line.", indent |-> 0],
              [font |-> "Helvetica", text |-> "Call to Action: Contact me to get started!", indent |-> 0] >>
C16_Witness == fin = "# Title\n- item one\n- item two\nPlain line." /\ fout # <<>>
Digits == {"0", "1", "2", "3", "4", "5", "6", "7", "8", "9"}
\* /^\d+\./ : one or more digits, then a period
IsNumbered(u) == \E k \in 1..(Len(u) - 1) :
                   (\A i \in 1..k : Char(u, i) \in Digits) /\ Char(u, k + 1) = "."
\* the non-empty units of a body, in order
Units(t) == SelectSeq([i \in 1..Len(SplitNl(t, "")) |-> TrimStr(SplitNl(t, "")[i])], LAMBDA u : u # "")
Wrapped(u) == Len(u) >= 2 /\ SubSeq(u, 1, 2) = "**" /\ SubSeq(u, Len(u) - 1, Len(u)) = "**"
Listed(u) == Len(u) >= 2 /\ SubSeq(u, 1, 2) \in {"- ", "* "}
Hashed(u) == Len(u) >= 1 /\ Char(u, 1) = "#"
\* the block the claim expects for unit u; numbered units in indented style
ExpectedWithNumbered(u, b) ==
  CASE Wrapped(u) -> b.font = "Helvetica-Bold" /\ b.text = RemoveStars(u)
    [] Listed(u) -> b.font = "Helvetica" /\ b.text = "U+2022 " \o SubSeq(u, 3, Len(u))
    [] Hashed(u) -> b.font = "Helvetica-Bold" /\ b.text = TrimStrLeft(DropHashes(u))
    [] IsNumbered(u) -> b.font = "Helvetica" /\ b.text = u /\ b.indent > 0
    [] OTHER -> b.font = "Helvetica" /\ b.text = u /\ b.indent = 0
Frame(o) ==
  /\ Len(o) = Len(Units(fin)) + 3
  /\ o[1].text = "Website Blueprint"
  /\ o[2].text = "Discount: 25% off your next project"
  /\ o[Len(o)].text = "Call to Action: Contact me to get started!"

\* C18 (as stated): every non-empty unit becomes one block by the first
\* matching rule (bold-wrapped, list marker, '#', numbered in indented style,
\* paragraph), in input order, between the header and the call-to-action.
C18_Classify ==
  fout # <<>> =>
    /\ Frame(fout)
    /\ \A i \in 1..Len(Units(fin)) : ExpectedWithNumbered(Units(fin)[i], fout[i + 2])
\* C17 (as stated): Start with idea "bakery site" and email "a@b.com", the AI
\* answering "**Plan**\n- Hero section\n- Menu page", returns the blueprint
\* "Plan\n- Hero section\n- Menu page" and stores a history of length 3
\* (checked on the step that completes the Start).
C17_EndToEnd ==
  [][(NewResp /\ last'.op = "start" /\ last'.code = 200 /\ last'.idea = "bakery site") =>
       /\ last'.postBp = "Plan\n- Hero section\n- Menu page"
       /\ Len(objs'[last'.obj].history) = 3]_vars
\* C17 (amended): the returned blueprint is the AI text with its "**" markers
\* kept, "**Plan**\n- Hero section\n- Menu page", and the history has length 3.
C17_EndToEndBold ==
  [][(NewResp /\ last'.op = "start" /\ last'.code = 200 /\ last'.idea = "bakery site") =>
       /\ last'.postBp = "**Plan**\n- Hero section\n- Menu page"
       /\ Len(objs'[last'.obj].history) = 3]_vars
C17_Witness == last.op = "start" /\ last.code = 200 /\ last.idea = "bakery site" /\ last.email = "a@b.com"
IsPrefix(a, b) == Len(a) <= Len(b) /\ SubSeq(b, 1, Len(a)) = a
FinalizeStep ==
  \/ NewResp /\ last'.op = "finalize"
  \/ \E p \in pend \cup pend' : p.op = "finalize" /\ ((p \in pend) # (p \in pend'))

\* C19: every session's history only grows at its end, idea and email never
\* change, a Continue with no other Continue interleaved on the session adds
\* exactly one entry on AI failure and two on success, and no Finalize step
\* changes any session.
C19_AppendOnly ==
  [][ /\ \A o \in 1..Len(objs) :
           /\ IsPrefix(objs[o].history, objs'[o].history)
           /\ objs'[o].idea = objs[o].idea /\ objs'[o].email = objs[o].email
      /\ (NewResp /\ last'.op = "continue" /\ last'.valid /\ last'.solo) =>
           last'.postLen - last'.preLen = IF last'.code = 200 THEN 2 ELSE 1
      /\ FinalizeStep => objs' = objs ]_vars
C19_Witness == last.op = "continue" /\ last.code = 200 /\ last.solo /\ finalized # {}
\* C20: every Start or Continue that reached the AI call is eventually
\* answered; a failing AI never leaves the request hanging.
C20_AlwaysAnswered ==
  \A r \in 1..MaxReqs :
    (\E p \in pend : p.rid = r /\ p.op \in {"start", "continue"}) ~> ~(\E p \in pend : p.rid = r)
====
